---- MODULE Spec2Model ----
(***************************************************************************)
(* Model of server.js: the Socket.io chat hub (connection, chatMessage,   *)
(* disconnect), the in-memory chat history, the login endpoint, the       *)
(* multer upload endpoint and GET /api/chatHistory.                       *)
(*                                                                         *)
(* JavaScript values are records [t |-> type, v |-> text]; the operators  *)
(* Truthy and Or model the language's || on them.  Node runs every        *)
(* handler to completion on one thread, so each handler is one action.    *)
(***************************************************************************)
EXTENDS Integers, Sequences, FiniteSets, TLC

\* ------------------------------------------------------------- bounds
\* Longest chat history explored.
MaxLog == 2
\* Largest value of the millisecond clock (Date.now()).
MaxClock == 1
\* Most upload requests explored.
MaxUploads == 2

\* ------------------------------------------------- JavaScript values
Undef == [t |-> "undefined", v |-> ""]
Null == [t |-> "null", v |-> ""]
Str(s) == [t |-> "string", v |-> s]
Num(s) == [t |-> "number", v |-> s]

\* ToBoolean: undefined, null, "", 0 and NaN are falsy.
Truthy(x) ==
    ~ \/ x.t \in {"undefined", "null"}
      \/ (x.t = "string" /\ x.v = "")
      \/ (x.t = "number" /\ x.v \in {"0", "NaN"})

\* a || b
Or(a, b) == IF Truthy(a) THEN a ELSE b

\* a === b
StrictEq(a, b) == a.t = b.t /\ a.v = b.v

\* ------------------------------------------------------------- clock
\* new Date().toISOString() at clock value n (n < 10).
ToISOString(n) == "1970-01-01T00:00:00.00" \o ToString(n) \o "Z"

\* -------------------------------------------------- sentiment analyzer
\* The AFINN words of the texts used here: love 3, hate -3.
AfinnScore(s) ==
    CASE s = "I love this!" -> 3
      [] s = "I hate this!" -> 0 - 3
      [] OTHER -> 0

\* sentiment.analyze(phrase): tokenize calls phrase.toLowerCase(), which
\* throws a TypeError on anything that is not a string.
AnalyzeThrows(phrase) == phrase.t # "string"
AnalyzeScore(phrase) == AfinnScore(phrase.v)

\* ------------------------------------------------------ chat payloads
Clients == {"A", "B"}

Obj(sender, text, fileUrl, timestamp) ==
    [t |-> "object", sender |-> sender, text |-> text,
     fileUrl |-> fileUrl, timestamp |-> timestamp]

\* socket.emit("chatMessage") with no argument, or with null.
NoPayload == [t |-> "undefined"]
NullPayload == [t |-> "null"]

EmptyObj == Obj(Undef, Undef, Undef, Undef)
LoveMsg == Obj(Str("Alice"), Str("I love this!"), Undef, Undef)
HateMsg == Obj(Undef, Str("I hate this!"), Undef, Undef)
FalsyMsg == Obj(Str(""), Num("0"), Str(""), Num("0"))
FullMsg ==
    Obj(Str("Bob"), Num("42"), Str("/uploads/0-a_b.txt"),
        Str("2024-05-01T10:00:00.000Z"))

\* socket.emit("chatMessage", "hello"): a string, not an object.
StringPayload == [t |-> "string", v |-> "hello"]

Payloads ==
    {NoPayload, NullPayload, StringPayload, EmptyObj, LoveMsg, HateMsg,
     FalsyMsg, FullMsg}

\* msg.f : a TypeError on undefined and null, the field otherwise.
PropThrows(msg) == msg.t \in {"undefined", "null"}
Prop(msg, f) == IF msg.t = "object" THEN msg[f] ELSE Undef

VARIABLES
    running,      \* the Node process is alive
    now,          \* the millisecond clock
    chatHistory,  \* let chatHistory = []
    sockets,      \* per client: "new", "connected" or "disconnected"
    replay,       \* per client: the chatHistory events it was sent
    live,         \* per client: the chatMessage events it was sent
    inbox,        \* the chatMessage events handed to the handler, in order,
                  \* each with its socket and the clock value it was handled at
    emitted,      \* the records given to io.emit, in order
    audience,     \* per appended record: the clients connected at that time
    uploads,      \* the uploads directory: the files [name, content] in it
    nStored,      \* files written so far (each upload's content is its number)
    http          \* the latest HTTP request and its response

vars ==
    <<running, now, chatHistory, sockets, replay, live, inbox, emitted, audience,
      uploads, nStored, http>>

hubVars == <<chatHistory, sockets, replay, live, inbox, emitted, audience>>

httpVars == <<uploads, nStored, http>>

Init ==
    /\ running = TRUE
    /\ now = 0
    /\ chatHistory = <<>>
    /\ sockets = [c \in Clients |-> "new"]
    /\ replay = [c \in Clients |-> <<>>]
    /\ live = [c \in Clients |-> <<>>]
    /\ inbox = <<>>
    /\ emitted = <<>>
    /\ audience = <<>>
    /\ uploads = {}
    /\ nStored = 0
    /\ http = [op |-> "none"]

\* The clock advances between handlers.
Tick ==
    /\ running
    /\ now < MaxClock
    /\ now' = now + 1
    /\ UNCHANGED <<running, hubVars, httpVars>>

\* ------------------------------------------------------ Socket.io hub
\* A connection handler that also records a "joined" notice in the history.
OnConnectionAnnounce(c) ==
    /\ running
    /\ sockets[c] = "new"
    /\ sockets' = [sockets EXCEPT ![c] = "connected"]
    /\ replay' = [replay EXCEPT ![c] = Append(@, chatHistory)]
    /\ chatHistory' =
           Append(chatHistory,
                  [sender |-> Str("system"), text |-> Str("joined"),
                   fileUrl |-> Null, timestamp |-> Str(ToISOString(now)),
                   sentiment |-> 0])
    /\ UNCHANGED <<running, now, live, inbox, emitted, audience, httpVars>>

\* io.emit("chatHistory", chatHistory) in place of socket.emit: the replay
\* goes to every connected socket.
OnConnectionIoEmit(c) ==
    /\ running
    /\ sockets[c] = "new"
    /\ sockets' = [sockets EXCEPT ![c] = "connected"]
    /\ replay' =
           [k \in Clients |->
               IF k = c \/ sockets[k] = "connected"
               THEN Append(replay[k], chatHistory) ELSE replay[k]]
    /\ UNCHANGED <<running, now, chatHistory, live, inbox, emitted, audience,
                   httpVars>>

\* io.on("connection"): socket.emit("chatHistory", chatHistory).
OnConnection(c) ==
    /\ running
    /\ sockets[c] = "new"
    /\ sockets' = [sockets EXCEPT ![c] = "connected"]
    /\ replay' = [replay EXCEPT ![c] = Append(@, chatHistory)]
    /\ UNCHANGED <<running, now, chatHistory, live, inbox, emitted, audience,
                   httpVars>>

\* The fields of msg copied without defaults.
SafeMsgNoDefaults(msg, clock) ==
    [sender |-> Prop(msg, "sender"), text |-> Prop(msg, "text"),
     fileUrl |-> Prop(msg, "fileUrl"), timestamp |-> Prop(msg, "timestamp")]

\* const safeMsg = { sender: msg.sender || "Anonymous", ... }
SafeMsg(msg, clock) ==
    [sender |-> Or(Prop(msg, "sender"), Str("Anonymous")),
     text |-> Or(Prop(msg, "text"), Str("")),
     fileUrl |-> Or(Prop(msg, "fileUrl"), Null),
     timestamp |-> Or(Prop(msg, "timestamp"), Str(ToISOString(clock)))]

\* result.comparative in place of result.score: the score divided by the
\* number of tokens (three in the texts used here).
SentimentComparative(safeMsg) ==
    IF AnalyzeThrows(safeMsg.text) THEN 0 ELSE AnalyzeScore(safeMsg.text) \div 3

\* try { safeMsg.sentiment = sentiment.analyze(safeMsg.text).score }
\* catch (err) { safeMsg.sentiment = 0 }
SentimentOf(safeMsg) ==
    IF AnalyzeThrows(safeMsg.text) THEN 0 ELSE AnalyzeScore(safeMsg.text)

\* The record pushed and broadcast for a payload.
Scored(msg, clock) ==
    LET s == SafeMsg(msg, clock)
    IN  [sender |-> s.sender, text |-> s.text, fileUrl |-> s.fileUrl,
         timestamp |-> s.timestamp, sentiment |-> SentimentOf(s)]

\* chatHistory.unshift(rec)
Unshift(log, rec) == <<rec>> \o log

\* chatHistory.concat(rec), whose result is dropped: nothing is stored.
Concat(log, rec) == log

\* chatHistory = [rec]
Reassign(log, rec) == <<rec>>

\* chatHistory.push(rec)
Push(log, rec) == Append(log, rec)

Connected == {k \in Clients : sockets[k] = "connected"}

\* One chatMessage event for each socket in targets.
Deliver(targets, rec) ==
    [k \in Clients |-> IF k \in targets THEN Append(live[k], rec) ELSE live[k]]

\* socket.broadcast.emit: every connected socket but c.
SocketBroadcastEmit(c, rec) == Deliver(Connected \ {c}, rec)

\* io.emit("chatMessage", rec) in the handler of socket c: every connected
\* socket, c included.
IoEmit(c, rec) == Deliver(Connected, rec)

\* socket.on("chatMessage"): msg.sender on an undefined or null payload
\* throws a TypeError that nothing catches, which ends the process.
OnChatMessage(c, msg) ==
    /\ running
    /\ sockets[c] = "connected"
    /\ Len(inbox) < MaxLog
    /\ inbox' = Append(inbox, [from |-> c, msg |-> msg, at |-> now])
    /\ UNCHANGED httpVars
    /\ IF PropThrows(msg)
       THEN /\ running' = FALSE
            /\ UNCHANGED <<now, chatHistory, sockets, replay, live, emitted,
                           audience>>
       ELSE LET rec == Scored(msg, now)
            IN  /\ chatHistory' = Push(chatHistory, rec)
                /\ live' = IoEmit(c, rec)
                /\ emitted' = Append(emitted, rec)
                /\ audience' = Append(audience, Connected)
                /\ UNCHANGED <<running, now, sockets, replay>>

\* socket.on("disconnect"): logs only.
OnDisconnect(c) ==
    /\ running
    /\ sockets[c] = "connected"
    /\ sockets' = [sockets EXCEPT ![c] = "disconnected"]
    /\ UNCHANGED <<running, now, chatHistory, replay, live, inbox, emitted,
                   audience, httpVars>>

NextHub ==
    \/ Tick
    \/ \E c \in Clients : OnConnection(c)
    \/ \E c \in Clients, msg \in Payloads : OnChatMessage(c, msg)
    \/ \E c \in Clients : OnDisconnect(c)

SpecHub == Init /\ [][NextHub]_vars

\* ------------------------------------------------------------- login
\* const users = [ ... ]
users ==
    <<[email |-> Str("user@example.com"), password |-> Str("mypassword")],
      [email |-> Str("24qm5a6701@gmail.com"), password |-> Str("Prashanth@123")]>>

\* An email of the table and a password of the table, not one row's pair.
UsersFindAnyRow(email, password) ==
    /\ \E i \in DOMAIN users : StrictEq(users[i].email, email)
    /\ \E i \in DOMAIN users : StrictEq(users[i].password, password)

\* users.find(u => u.email === email && u.password === password)
UsersFind(email, password) ==
    \E i \in DOMAIN users :
        StrictEq(users[i].email, email) /\ StrictEq(users[i].password, password)

\* The fields a login request body may carry.
Emails ==
    {Undef, Null, Str(""), Str("user@example.com"), Str("24qm5a6701@gmail.com"),
     Str("User@example.com")}
Passwords ==
    {Undef, Str(""), Str("mypassword"), Str("Prashanth@123"), Num("7")}

\* app.post("/api/login"): the response; consulted records whether
\* users.find ran.
LoginResponse(email, password) ==
    IF ~Truthy(email) \/ ~Truthy(password)
    THEN [status |-> 200, ctype |-> "json", consulted |-> FALSE,
          body |-> [success |-> FALSE, message |-> "Email and password required"]]
    ELSE IF UsersFind(email, password)
    THEN [status |-> 200, ctype |-> "json", consulted |-> TRUE,
          body |-> [success |-> TRUE]]
    ELSE [status |-> 200, ctype |-> "json", consulted |-> TRUE,
          body |-> [success |-> FALSE, message |-> "Invalid email or password"]]

Login(email, password) ==
    /\ running
    /\ http' = [op |-> "login", email |-> email, password |-> password,
                res |-> LoginResponse(email, password)]
    /\ UNCHANGED <<running, now, hubVars, uploads, nStored>>

\* ------------------------------------------------------------ upload
\* File names are sequences of characters.
Whitespace == {" ", "\t"}

\* name.replace(/\s+/g, "_"): every maximal run of whitespace becomes "_".
RECURSIVE ReplaceWs(_)
ReplaceWs(name) ==
    IF name = <<>> THEN <<>>
    ELSE IF Head(name) \in Whitespace
    THEN IF Len(name) > 1 /\ name[2] \in Whitespace
         THEN ReplaceWs(Tail(name))
         ELSE <<"_">> \o ReplaceWs(Tail(name))
    ELSE <<Head(name)>> \o ReplaceWs(Tail(name))

\* storage.filename: Date.now() + "-" + file.originalname.replace(/\s+/g, "_")
SafeName(clock, originalname) ==
    <<ToString(clock), "-">> \o ReplaceWs(originalname)

\* `/uploads/${req.file.filename}`
FileUrl(filename) == <<"/uploads/">> \o filename

OriginalNames ==
    {<<"a", " ", "b">>, <<"a", " ", "\t", "b">>, <<"a", "_", "b">>, <<"c">>}

\* The disk after a file is written under a name: createWriteStream
\* replaces a file that has the name already.
DiskWrite(disk, name, content) ==
    {f \in disk : f.name # name} \cup {[name |-> name, content |-> content]}

\* The handler without its !req.file check: req.file.filename throws and
\* the catch answers 500.
UploadHandlerNoCheck(file) ==
    IF file.present
    THEN [status |-> 200, ctype |-> "json",
          body |-> [fileUrl |-> FileUrl(file.filename)]]
    ELSE [status |-> 500, ctype |-> "json",
          body |-> [error |-> "Upload failed"]]

\* The route handler (req, res) => { ... } given req.file.
UploadHandler(file) ==
    IF file.present
    THEN [status |-> 200, ctype |-> "json",
          body |-> [fileUrl |-> FileUrl(file.filename)]]
    ELSE [status |-> 400, ctype |-> "json",
          body |-> [error |-> "No file uploaded"]]

\* upload.single("file") hands a storage error to next(err); the route
\* handler and its try/catch never run, and Express's default error
\* handler answers 500 with an HTML page.
DefaultErrorHandler ==
    [status |-> 500, ctype |-> "html", body |-> [page |-> "Internal Server Error"]]

\* POST /api/upload with a file part in field "file".
UploadFile(originalname, writeOk) ==
    /\ running
    /\ nStored < MaxUploads
    /\ LET name == SafeName(now, originalname)
       IN  IF writeOk
           THEN /\ uploads' = DiskWrite(uploads, name, nStored + 1)
                /\ nStored' = nStored + 1
                /\ http' = [op |-> "upload", hasFile |-> TRUE, writeOk |-> TRUE,
                            originalname |-> originalname,
                            res |-> UploadHandler([present |-> TRUE, filename |-> name])]
           ELSE /\ UNCHANGED <<uploads, nStored>>
                /\ http' = [op |-> "upload", hasFile |-> TRUE, writeOk |-> FALSE,
                            originalname |-> originalname,
                            res |-> DefaultErrorHandler]
    /\ UNCHANGED <<running, now, hubVars>>

\* POST /api/upload without a file part: multer leaves req.file undefined.
UploadNoFile ==
    /\ running
    /\ http' = [op |-> "upload", hasFile |-> FALSE, writeOk |-> TRUE,
                originalname |-> <<>>,
                res |-> UploadHandler([present |-> FALSE, filename |-> <<>>])]
    /\ UNCHANGED <<running, now, hubVars, uploads, nStored>>

\* GET /api/chatHistory answering with the latest record only
\* (chatHistory.slice(-1)).
GetChatHistoryLatest ==
    /\ running
    /\ http' = [op |-> "chatHistory",
                res |-> [status |-> 200, ctype |-> "json",
                         body |-> [history |->
                            IF chatHistory = <<>> THEN <<>>
                            ELSE <<chatHistory[Len(chatHistory)]>>]]]
    /\ UNCHANGED <<running, now, hubVars, uploads, nStored>>

\* app.get("/api/chatHistory")
GetChatHistory ==
    /\ running
    /\ http' = [op |-> "chatHistory",
                res |-> [status |-> 200, ctype |-> "json",
                         body |-> [history |-> chatHistory]]]
    /\ UNCHANGED <<running, now, hubVars, uploads, nStored>>

\* The HTTP surface, with one chat client posting beside it.
HttpClients == {"A"}
HttpPayloads == {LoveMsg}

NextHttp ==
    \/ Tick
    \/ \E e \in Emails, p \in Passwords : Login(e, p)
    \/ \E n \in OriginalNames, ok \in BOOLEAN : UploadFile(n, ok)
    \/ UploadNoFile
    \/ GetChatHistory
    \/ \E c \in HttpClients : OnConnection(c)
    \/ \E c \in HttpClients, msg \in HttpPayloads : OnChatMessage(c, msg)

SpecHttp == Init /\ [][NextHttp]_vars

\* Every handler of the server side by side, at one clock value and with a
\* few inputs of each kind: both clients, two payloads, two logins, one file
\* name.
ServerPayloads == {LoveMsg, HateMsg}
ServerLogins ==
    {<<Str("user@example.com"), Str("mypassword")>>, <<Undef, Undef>>}
ServerNames == {<<"c">>}

NextServer ==
    \/ \E l \in ServerLogins : Login(l[1], l[2])
    \/ \E n \in ServerNames, ok \in BOOLEAN : UploadFile(n, ok)
    \/ UploadNoFile
    \/ GetChatHistory
    \/ \E c \in Clients : OnConnection(c)
    \/ \E c \in Clients, msg \in ServerPayloads : OnChatMessage(c, msg)
    \/ \E c \in Clients : OnDisconnect(c)

SpecServer == Init /\ [][NextServer]_vars

\* Every operation of the server.  The hub and the HTTP surface share only
\* chatHistory, which the HTTP surface reads; SpecHub and SpecHttp explore
\* the two separately with all their inputs.
Next == NextHub \/ NextHttp

Spec == Init /\ [][Next]_vars

\* ================================================================ claims
Fields == {"sender", "text", "fileUrl", "timestamp"}

\* The rank of record k among the records client c was connected for.
Pos(c, k) == Cardinality({i \in 1..k : c \in audience[i]})

IsPrefix(p, q) == Len(p) <= Len(q) /\ \A i \in 1..Len(p) : p[i] = q[i]

\* C1: the records are broadcast in the order they are appended: the
\* sequence given to io.emit is the chat history, and a client receives the
\* records it was connected for in history order.
C1_BroadcastOrder ==
    /\ emitted = chatHistory
    /\ \A c \in Clients : \A k \in 1..Len(chatHistory) :
          c \in audience[k] =>
             /\ Pos(c, k) <= Len(live[c])
             /\ live[c][Pos(c, k)] = chatHistory[k]

\* Two different records from two different sockets, both received by both.
C1_Witness ==
    /\ Len(chatHistory) >= 2
    /\ chatHistory[1] # chatHistory[2]
    /\ inbox[1].from # inbox[2].from
    /\ \A c \in Clients : Len(live[c]) >= 2

\* C2: after N chatMessage events the history has N records, in the order
\* of the events, and a replay is the history as it stood at connection.
C2_LogTracksEvents ==
    /\ Len(chatHistory) = Len(inbox)
    /\ \A k \in 1..Len(chatHistory) :
          chatHistory[k] = Scored(inbox[k].msg, inbox[k].at)
    /\ \A c \in Clients : \A i \in 1..Len(replay[c]) :
          IsPrefix(replay[c][i], chatHistory)

C5_EveryEventAppends ==
    [][\A c \in Clients, msg \in Payloads :
          OnChatMessage(c, msg) =>
             /\ running'
             /\ Len(chatHistory') = Len(chatHistory) + 1
             /\ emitted' = Append(emitted, chatHistory'[Len(chatHistory')])]_vars

\* The analyzer's score on a text, 0 where it cannot process it.
ExpectedScore(text) == IF text.t = "string" THEN AfinnScore(text.v) ELSE 0

\* C6: the record of every message has the analyzer's score on its stored
\* text, or 0 where the analyzer fails, and it is appended and broadcast in
\* either case.
C6_Sentiment ==
    \A k \in 1..Len(inbox) :
       ~PropThrows(inbox[k].msg) =>
          /\ k <= Len(chatHistory)
          /\ k <= Len(emitted)
          /\ chatHistory[k].text = SafeMsg(inbox[k].msg, inbox[k].at).text
          /\ chatHistory[k].sentiment = ExpectedScore(chatHistory[k].text)
          /\ emitted[k] = chatHistory[k]

\* A text the analyzer fails on and a text it scores, both stored and
\* received.
C6_Witness ==
    \E j, k \in 1..Len(chatHistory) :
       /\ chatHistory[j].text.t # "string"
       /\ chatHistory[j].sentiment = 0
       /\ chatHistory[k].sentiment > 0
       /\ \E c \in Clients : Len(live[c]) = 2

\* The default of a field at clock value at.
DefaultOf(f, at) ==
    CASE f = "sender" -> Str("Anonymous")
      [] f = "text" -> Str("")
      [] f = "fileUrl" -> Null
      [] f = "timestamp" -> Str(ToISOString(at))

\* The values || replaces by its right-hand side.
Falsy == {Undef, Null, Str(""), Num("0"), Num("NaN")}

\* C7 as stated: an omitted field is stored as its default and a supplied
\* field as supplied.
C7_SuppliedStoredAsSupplied ==
    \A k \in 1..Len(chatHistory) : \A f \in Fields :
       LET v == Prop(inbox[k].msg, f)
       IN  chatHistory[k][f] = IF v = Undef THEN DefaultOf(f, inbox[k].at) ELSE v

\* C7 amended: an omitted or falsy field is stored as its default, every
\* other supplied field as supplied.
C7_Normalized ==
    \A k \in 1..Len(chatHistory) : \A f \in Fields :
       LET v == Prop(inbox[k].msg, f)
       IN  chatHistory[k][f] = IF v \in Falsy THEN DefaultOf(f, inbox[k].at) ELSE v

\* A payload with every field omitted, handled after the clock moved, and a
\* payload with every field supplied.
C7_Witness ==
    \E j, k \in 1..Len(chatHistory) :
       /\ inbox[j].msg = EmptyObj
       /\ inbox[j].at > 0
       /\ chatHistory[j].sender = Str("Anonymous")
       /\ inbox[k].msg = FullMsg
       /\ chatHistory[k].sender = Str("Bob")

\* ------------------------------------------------------- HTTP claims
\* A login field that is empty or absent.
Missing(x) == x \in {Undef, Null, Str("")}

\* The rows of the credential table.
CredentialPairs ==
    {<<Str("user@example.com"), Str("mypassword")>>,
     <<Str("24qm5a6701@gmail.com"), Str("Prashanth@123")>>}

C8_StorageFailureJson ==
    (http.op = "upload" /\ http.hasFile /\ ~http.writeOk) =>
       /\ http.res.status = 500
       /\ http.res.ctype = "json"
       /\ DOMAIN http.res.body = {"error"}

\* C9: an upload without a file part is answered 400 with an error body and
\* changes neither the chat history nor the uploads directory.
C9_NoFile ==
    [][UploadNoFile =>
          /\ http'.res.status = 400
          /\ http'.res.ctype = "json"
          /\ DOMAIN http'.res.body = {"error"}
          /\ chatHistory' = chatHistory
          /\ uploads' = uploads]_vars

\* An upload without a file part answered while the chat history and the
\* uploads directory hold something.
C9_Witness ==
    /\ http.op = "upload"
    /\ ~http.hasFile
    /\ http.res.status = 400
    /\ chatHistory # <<>>
    /\ uploads # {}

\* C10: every successful upload has a stored name of its own, so the
\* directory holds one file for each of them.
C10_UniqueNames == Cardinality(uploads) = nStored

\* --------------------------------------------------- chat log claims
\* C11: the chat history is append-only: every step leaves the previous
\* history as a prefix of the new one, so no record in it is ever edited,
\* moved or removed.
C11_AppendOnly == [][IsPrefix(chatHistory, chatHistory')]_vars

\* Two different records in the history, with a client that disconnected.
C11_Witness ==
    /\ Len(chatHistory) >= 2
    /\ chatHistory[1] # chatHistory[2]
    /\ \E c \in Clients : sockets[c] = "disconnected"

\* C12: the chatMessage handler is the only writer of the chat history:
\* a step that changes it is a chatMessage step, and every step of login,
\* upload (stored, failed or without a file) and GET /api/chatHistory (the
\* steps that answer an HTTP request) and every connection and
\* disconnection (the steps that change a socket's state) leaves it as it was.
C12_SoleWriter ==
    [][/\ chatHistory' # chatHistory =>
             \E c \in Clients, msg \in Payloads : OnChatMessage(c, msg)
       /\ (http' # http \/ uploads' # uploads \/ sockets' # sockets) =>
             chatHistory' = chatHistory]_vars

\* A login answered while the history holds a record, a file is stored and
\* the client has disconnected.
C12_Witness ==
    /\ chatHistory # <<>>
    /\ http.op = "login"
    /\ uploads # {}
    /\ \E c \in Clients : sockets[c] = "disconnected"

\* C13: GET /api/chatHistory answers 200 with the whole chat history in
\* append order, and a client that connects while the history is still the
\* one of the latest GET is sent a replay equal to that response.
C13_HistoryRead ==
    [][/\ GetChatHistory =>
             /\ http'.res.status = 200
             /\ http'.res.ctype = "json"
             /\ http'.res.body = [history |-> chatHistory]
       /\ \A c \in Clients :
             (/\ OnConnection(c)
              /\ http.op = "chatHistory"
              /\ Len(http.res.body.history) = Len(chatHistory))
                => replay'[c] = <<http.res.body.history>>]_vars

\* A GET answered with two records, and a client connected right after it
\* with the same two records replayed.
C13_Witness ==
    /\ http.op = "chatHistory"
    /\ Len(http.res.body.history) = 2
    /\ http.res.body.history = chatHistory
    /\ \E c \in Clients :
          /\ sockets[c] = "connected"
          /\ replay[c] = <<http.res.body.history>>

\* The ISO-8601 strings among the timestamps used here.
Iso8601 ==
    {ToISOString(n) : n \in 0..9} \cup {"2024-05-01T10:00:00.000Z"}

\* C14: every record of the chat history has a string sender, a string
\* text, a fileUrl that is null or a string, an ISO-8601 string timestamp and
\* an integer sentiment.
C14_DataModel ==
    \A k \in 1..Len(chatHistory) :
       LET r == chatHistory[k]
       IN  /\ r.sender.t = "string"
           /\ r.text.t = "string"
           /\ r.fileUrl.t \in {"null", "string"}
           /\ r.timestamp.t = "string"
           /\ r.timestamp.v \in Iso8601
           /\ r.sentiment \in Int

Range(q) == {q[i] : i \in 1..Len(q)}

\* Every live event a client holds.
Received == UNION {Range(live[c]) : c \in Clients}

\* C15: the record published is the record appended, and it is in the chat
\* history by the time any client holds its live event: after every step the
\* records received live are records of the history, in the order given to
\* io.emit, and a GET /api/chatHistory or a connection handled afterwards
\* returns them.
C15_StoredBeforeSeen ==
    [][/\ IsPrefix(emitted', chatHistory')
       /\ \A c \in Clients : Range(live'[c]) \subseteq Range(chatHistory')
       /\ GetChatHistory => Received \subseteq Range(http'.res.body.history)
       /\ \A d \in Clients :
             OnConnection(d) => Received \subseteq Range(replay'[d][1])]_vars

\* A client holds a live event; afterwards another client connected and a
\* GET was answered, both with that record.
C15_Witness ==
    \E c, d \in Clients :
       /\ c # d
       /\ Len(live[c]) >= 1
       /\ live[d] = <<>>
       /\ Len(replay[d]) = 1
       /\ live[c][1] \in Range(replay[d][1])
       /\ http.op = "chatHistory"
       /\ live[c][1] \in Range(http.res.body.history)

\* C16: a connection is sent the chatHistory event once, when it opens, and
\* no other client is sent one then; a disconnection changes neither the
\* chat history nor any other client's socket or events; a disconnected
\* client is sent nothing more.
C16_Lifecycle ==
    [][\A c \in Clients :
          /\ Len(replay'[c]) = IF sockets'[c] = "new" THEN 0 ELSE 1
          /\ OnConnection(c) =>
                /\ replay'[c] = <<chatHistory>>
                /\ \A d \in Clients \ {c} : replay'[d] = replay[d]
                /\ live' = live
          /\ OnDisconnect(c) =>
                /\ chatHistory' = chatHistory
                /\ \A d \in Clients \ {c} : sockets'[d] = sockets[d]
                /\ replay' = replay
                /\ live' = live
          /\ sockets[c] = "disconnected" =>
                /\ sockets'[c] = "disconnected"
                /\ replay'[c] = replay[c]
                /\ live'[c] = live[c]]_vars

\* A client connected to a non-empty history while another was connected,
\* disconnected, and a record appended afterwards reached only the other.
C16_Witness ==
    \E c, d \in Clients :
       /\ sockets[c] = "disconnected"
       /\ sockets[d] = "connected"
       /\ Len(replay[c]) = 1
       /\ Len(replay[c][1]) >= 1
       /\ Len(replay[c][1]) + Len(live[c]) < Len(chatHistory)
       /\ replay[d] = <<(<<>>)>>
       /\ live[d] = chatHistory

====
